---- MODULE Spec2Model ----
(***************************************************************************)
(* Audit CoE API (src/main.py): the schema-adaptive request handlers over  *)
(* a Postgres database reached through psycopg.                            *)
(*                                                                         *)
(* Spec      one HTTP request, from dispatch to its response, against a    *)
(*           database whose catalog is read at request time.               *)
(* SpecPure  the column-resolver helpers applied to arbitrary bounded      *)
(*           inputs.                                                       *)
(***************************************************************************)
EXTENDS Integers, Sequences, FiniteSets, TLC

VARIABLES
    DATABASE_URL,   \* module global, read from the environment at import
    parentExists,   \* database: the tasks row with the submitted id is there
    committed,      \* database: the writes of committed transactions
    tx,             \* database: the writes of the open transaction
    conn,           \* "none" | "open" | "closed"
    dbLog,          \* every database access the request attempted, in order
    handler,        \* the endpoint function serving the request
    pc,             \* the handler's position
    args,           \* the request's parameters / payload
    ret,            \* the value of a return statement inside `with _db()`
    response,       \* the body handed back to the caller
    faultAt,        \* where an exception was raised ("" when none was)
    cols,           \* list handlers: cols / task_cols
    run_cols,       \* list_tasks: run_cols
    select_cols,    \* list handlers: select_cols
    where_parts,    \* list handlers: where_parts
    join_sql,       \* list_tasks: join_sql
    params,         \* list handlers: params
    query,          \* list handlers: query
    tr_meta,        \* create_task_response: tr_meta
    t_meta,         \* create_task_response: t_meta
    insert_data,    \* create_task_response: insert_data
    missing,        \* create_task_response: missing
    update_fields,  \* create_task_response: update_fields
    out_row,        \* create_task_response: out_row
    found,          \* create_task_response: the parent lookup fetched a row
    existing,       \* SpecPure: the live column list
    desired,        \* SpecPure: the desired / candidate list
    selected,       \* SpecPure: result of _select_intersection
    picked,         \* SpecPure: result of _pick_first
    called          \* SpecPure: the helpers applied so far

envVars  == <<DATABASE_URL, parentExists>>
dbVars   == <<committed, tx, conn, dbLog>>
reqVars  == <<handler, pc, args, ret, response, faultAt>>
listVars == <<cols, run_cols, select_cols, where_parts, join_sql, params, query>>
ctrVars  == <<tr_meta, t_meta, insert_data, missing, update_fields, out_row, found>>
pureVars == <<existing, desired, selected, picked, called>>
vars     == <<envVars, dbVars, reqVars, listVars, ctrVars, pureVars>>

(***************************************************************************)
(* Bounds                                                                  *)
(***************************************************************************)
\* longest desired / candidate list drawn in SpecPure
MaxLen == 3
\* most columns a drawn task_responses catalog has
MaxTRCols == 2

(***************************************************************************)
(* Values                                                                  *)
(***************************************************************************)
None == "<None>"
NoValue == [pending |-> TRUE]

Range(s) == {s[i] : i \in DOMAIN s}

SeqsUpTo(S, n) == UNION {[1..k -> S] : k \in 0..n}

DistinctSeqs(S, n) ==
    {s \in SeqsUpTo(S, n) : \A i, j \in DOMAIN s : i # j => s[i] # s[j]}

\* Python truthiness of an Optional[str]
Truthy(v) == v # None /\ v # ""

(***************************************************************************)
(* Column resolver                                                         *)
(***************************************************************************)
\* a resolver that walks the table's columns instead of the desired list
SelectInTableOrder(existing_, desired_) ==
    SelectSeq(existing_, LAMBDA c : c \in Range(desired_))

_select_intersection(existing_, desired_) ==
    LET existing_set == Range(existing_)
    IN  SelectSeq(desired_, LAMBDA c : c \in existing_set)

RECURSIVE PickFrom(_, _, _)
PickFrom(existing_, candidates, i) ==
    IF i > Len(candidates) THEN None
    ELSE IF candidates[i] \in existing_ THEN candidates[i]
    ELSE PickFrom(existing_, candidates, i + 1)

RECURSIVE PickBack(_, _, _)
PickBack(existing_, candidates, i) ==
    IF i < 1 THEN None
    ELSE IF candidates[i] \in existing_ THEN candidates[i]
    ELSE PickBack(existing_, candidates, i - 1)

\* a resolver that keeps the last matching candidate
PickLast(existing_, candidates) == PickBack(existing_, candidates, Len(candidates))

_pick_first(existing_, candidates) == PickFrom(existing_, candidates, 1)

(***************************************************************************)
(* SpecPure: the resolver helpers on drawn inputs                          *)
(***************************************************************************)
PureNames == {"task_id", "tasks_id", "task_uuid"}

IdleRequest ==
    /\ committed = {} /\ tx = <<>> /\ conn = "none" /\ dbLog = <<>>
    /\ handler = "none" /\ pc = "idle" /\ args = [none |-> TRUE]
    /\ ret = NoValue /\ response = NoValue /\ faultAt = ""
    /\ cols = <<>> /\ run_cols = <<>> /\ select_cols = <<>>
    /\ where_parts = <<>> /\ join_sql = <<>> /\ params = <<>> /\ query = <<>>
    /\ tr_meta = <<>> /\ t_meta = <<>> /\ insert_data = <<>>
    /\ missing = <<>> /\ update_fields = <<>> /\ out_row = NoValue
    /\ found = FALSE

InitPure ==
    /\ DATABASE_URL = None /\ parentExists = FALSE
    /\ IdleRequest
    /\ existing \in DistinctSeqs(PureNames, Cardinality(PureNames))
    /\ desired \in SeqsUpTo(PureNames, MaxLen)
    /\ selected = <<>>
    /\ picked = None
    /\ called = {}

CallSelectIntersection ==
    /\ "_select_intersection" \notin called
    /\ selected' = _select_intersection(existing, desired)
    /\ called' = called \cup {"_select_intersection"}
    /\ UNCHANGED <<envVars, dbVars, reqVars, listVars, ctrVars, existing, desired, picked>>

CallPickFirst ==
    /\ "_pick_first" \notin called
    /\ picked' = _pick_first(Range(existing), desired)
    /\ called' = called \cup {"_pick_first"}
    /\ UNCHANGED <<envVars, dbVars, reqVars, listVars, ctrVars, existing, desired, selected>>

NextPure == CallSelectIntersection \/ CallPickFirst

SpecPure == InitPure /\ [][NextPure]_vars

(***************************************************************************)
(* The database as the handlers see it                                     *)
(***************************************************************************)
RECURSIVE Keep(_, _, _)
Keep(s, I, i) ==
    IF i > Len(s) THEN <<>>
    ELSE (IF i \in I THEN <<s[i]>> ELSE <<>>) \o Keep(s, I, i + 1)

\* the catalogs a table can have: any columns of the list, in ordinal order
Catalogs(names) == {Keep(names, I, 1) : I \in SUBSET DOMAIN names}

RunCatalog == <<"created_at", "account_id", "id", "region">>
TaskCatalog == <<"created_at", "status", "audit_run_id", "account_id", "id", "notes">>

\* what _table_columns can return for a table
_table_columns(table) ==
    CASE table = "audit_runs" -> Catalogs(RunCatalog)
      [] table = "tasks" -> Catalogs(TaskCatalog)
      [] OTHER -> {<<>>}

Access(op, table, ok) == [op |-> op, table |-> table, ok |-> ok]

\* the statement a handler sends at a position
StatementAt(h, p) ==
    CASE p = "Counting" -> <<"select", "accounts">>
      [] p = "FetchingColumns" /\ h = "debug_columns" -> <<"catalog", args.table>>
      [] p = "FetchingColumns" /\ h = "list_audit_runs" -> <<"catalog", "audit_runs">>
      [] p = "FetchingColumns" /\ h = "list_tasks" -> <<"catalog", "tasks">>
      [] p = "FetchingRunColumns" -> <<"catalog", "audit_runs">>
      [] p = "Executing" /\ h = "list_audit_runs" -> <<"select", "audit_runs">>
      [] p = "Executing" /\ h = "list_tasks" -> <<"select", "tasks">>
      [] p = "ResolvingSchema" -> <<"catalog", "task_responses">>
      [] p = "ResolvingParentSchema" -> <<"catalog", "tasks">>
      [] p = "ConfirmingParentExists" -> <<"select", "tasks">>
      [] p = "Inserting" -> <<"insert", "task_responses">>
      [] p = "UpdatingParent" -> <<"update", "tasks">>

StatementPcs ==
    {"Counting", "FetchingColumns", "FetchingRunColumns", "Executing",
     "ResolvingSchema", "ResolvingParentSchema", "ConfirmingParentExists",
     "Inserting", "UpdatingParent"}

Executed(ok) ==
    Append(dbLog, Access(StatementAt(handler, pc)[1], StatementAt(handler, pc)[2], ok))

(***************************************************************************)
(* Error bodies                                                            *)
(***************************************************************************)
_err(code, detail, extra) == extra @@ [error |-> code, detail |-> detail]

\* an empty dict
NoExtra == <<>>

\* an except clause that reports in a `status` field, as debug_db does
StatusOnlyExcept(h, detail) == [status |-> "error", detail |-> detail]

\* the body each handler's `except Exception as e` returns
ExceptClause(h, detail) ==
    CASE h = "debug_db" -> [status |-> "error", detail |-> detail]
      [] h = "debug_columns" -> [error |-> "debug_columns_failed", detail |-> detail]
      [] h = "list_audit_runs" -> [error |-> "audit_runs_query_failed", detail |-> detail]
      [] h = "list_tasks" -> [error |-> "tasks_query_failed", detail |-> detail]
      [] h = "create_task_response" -> _err("task_response_create_failed", detail, NoExtra)

\* the positions each handler's try block encloses
TryBlock(h) ==
    CASE h = "debug_db" -> {"Connecting", "Counting", "Exiting"}
      [] h = "debug_columns" -> {"Connecting", "FetchingColumns", "Exiting"}
      [] h = "list_audit_runs" -> {"Connecting", "FetchingColumns", "Executing", "Exiting"}
      [] h = "list_tasks" ->
            {"Connecting", "FetchingColumns", "FetchingRunColumns", "Executing", "Exiting"}
      [] h = "create_task_response" ->
            {"Connecting", "ResolvingSchema", "ResolvingParentSchema", "CheckingRequired",
             "ConfirmingParentExists", "Inserting", "UpdatingParent", "Exiting"}
      [] OTHER -> {}

\* an exception raised at the current position: Connection.__exit__ rolls the
\* open transaction back and closes, then the except clause answers
Raise(detail) ==
    /\ faultAt' = pc
    /\ tx' = <<>>
    /\ conn' = IF conn = "open" THEN "closed" ELSE conn
    /\ response' = IF pc \in TryBlock(handler)
                   THEN ExceptClause(handler, detail)
                   ELSE [unhandled_exception |-> detail]
    /\ pc' = "done"
    /\ UNCHANGED <<committed, handler, args, ret>>

\* a return statement reached with the connection open: the value waits for
\* Connection.__exit__
Return(value) ==
    /\ ret' = value
    /\ pc' = "Exiting"
    /\ UNCHANGED <<handler, args, response, faultAt>>

Goto(p) ==
    /\ pc' = p
    /\ UNCHANGED <<handler, args, ret, response, faultAt>>

(***************************************************************************)
(* _db() and the exits of `with _db() as conn`                             *)
(***************************************************************************)
AfterConnect(h) ==
    CASE h = "debug_db" -> "Counting"
      [] h = "create_task_response" -> "ResolvingSchema"
      [] OTHER -> "FetchingColumns"

_db ==
    /\ pc = "Connecting"
    /\ \/ /\ ~Truthy(DATABASE_URL)
          /\ Raise("DATABASE_URL not set")
          /\ UNCHANGED dbLog
       \/ /\ Truthy(DATABASE_URL)
          /\ conn' = "open"
          /\ tx' = <<>>
          /\ dbLog' = Append(dbLog, Access("connect", "", TRUE))
          /\ Goto(AfterConnect(handler))
          /\ UNCHANGED committed
       \/ /\ Truthy(DATABASE_URL)
          /\ dbLog' = Append(dbLog, Access("connect", "", FALSE))
          /\ Raise("connection failed")
    /\ UNCHANGED <<envVars, listVars, ctrVars, pureVars>>

\* a statement of the request faults in the database
StatementFault ==
    /\ pc \in StatementPcs
    /\ pc = "UpdatingParent" => update_fields # <<>>
    /\ dbLog' = Executed(FALSE)
    /\ Raise("statement failed")
    /\ UNCHANGED <<envVars, listVars, ctrVars, pureVars>>

\* Connection.__exit__ without an exception: commit, close; a failing commit
\* raises inside the handler's try
ConnExit ==
    /\ pc = "Exiting"
    /\ \/ /\ committed' = committed \cup Range(tx)
          /\ tx' = <<>>
          /\ conn' = "closed"
          /\ response' = ret
          /\ pc' = "done"
          /\ UNCHANGED <<handler, args, ret, faultAt>>
       \/ Raise("commit failed")
    /\ UNCHANGED <<envVars, dbLog, listVars, ctrVars, pureVars>>

(***************************************************************************)
(* GET /health, /debug/db, /debug/columns                                  *)
(***************************************************************************)
health ==
    /\ pc = "idle"
    /\ handler' = "health"
    /\ response' = [status |-> "ok"]
    /\ pc' = "done"
    /\ UNCHANGED <<envVars, dbVars, args, ret, faultAt, listVars, ctrVars, pureVars>>

debug_db ==
    /\ pc = "idle"
    /\ handler' = "debug_db"
    /\ IF ~Truthy(DATABASE_URL)
       THEN /\ response' = [status |-> "error", detail |-> "DATABASE_URL not set"]
            /\ pc' = "done"
       ELSE /\ pc' = "Connecting"
            /\ UNCHANGED response
    /\ UNCHANGED <<envVars, dbVars, args, ret, faultAt, listVars, ctrVars, pureVars>>

debug_db_count ==
    /\ handler = "debug_db" /\ pc = "Counting"
    /\ \E accounts \in {0, 1} :
          Return([status |-> "success", message |-> "Connected to Postgres",
                  accounts |-> accounts])
    /\ dbLog' = Executed(TRUE)
    /\ UNCHANGED <<envVars, committed, tx, conn, listVars, ctrVars, pureVars>>

debug_columns ==
    /\ pc = "idle"
    /\ handler' = "debug_columns"
    /\ \E table \in {"tasks", "audit_runs", "nowhere"} :
          args' = [table |-> table, schema |-> "public"]
    /\ pc' = "Connecting"
    /\ UNCHANGED <<envVars, dbVars, ret, response, faultAt, listVars, ctrVars, pureVars>>

debug_columns_fetch ==
    /\ handler = "debug_columns" /\ pc = "FetchingColumns"
    /\ \E c \in _table_columns(args.table) :
          /\ cols' = c
          /\ Return([schema |-> args.schema, table |-> args.table,
                     columns |-> c, count |-> Len(c)])
    /\ dbLog' = Executed(TRUE)
    /\ UNCHANGED <<envVars, committed, tx, conn, run_cols, select_cols, where_parts,
                   join_sql, params, query, ctrVars, pureVars>>

(***************************************************************************)
(* SQL composition (psycopg.sql): a statement is its sequence of tokens    *)
(***************************************************************************)
KW(text) == [k |-> "kw", v |-> text, ph |-> ""]
Ident(name) == [k |-> "ident", v |-> name, ph |-> ""]
\* a predicate `column = %(name)s`
Predicate(column, name) == [k |-> "pred", v |-> column, ph |-> name]
\* a bare placeholder %(name)s
Placeholder(name) == [k |-> "placeholder", v |-> name, ph |-> name]

RECURSIVE Join(_, _)
\* sql.SQL(sep).join(parts)
Join(sep, parts) ==
    IF Len(parts) <= 1 THEN parts
    ELSE <<Head(parts), sep>> \o Join(sep, Tail(parts))

Idents(names) == [i \in DOMAIN names |-> Ident(names[i])]

\* a WHERE clause emitted whether or not there is a predicate
WhereAlways(parts) == <<KW("WHERE")>> \o Join(KW("AND"), parts)

\* where_sql
WhereSql(parts) ==
    IF parts # <<>> THEN <<KW("WHERE")>> \o Join(KW("AND"), parts) ELSE <<>>

\* the SELECT of list_audit_runs and list_tasks
SelectStatement(select_sql, from_sql, join, where, order_col) ==
    <<KW("SELECT")>> \o select_sql \o <<KW("FROM")>> \o from_sql \o join
        \o WhereSql(where)
        \o <<KW("ORDER BY"), Ident(order_col), KW("DESC"), KW("LIMIT"), Placeholder("limit")>>

(***************************************************************************)
(* GET /audit-runs                                                         *)
(***************************************************************************)
\* a filter applied whenever it is asked for, whatever the table has
FilterAsked(value, column, columns) == Truthy(value)

\* `if <value> and "<column>" in <columns>` (lines 198, 262, 266)
FilterApplies(value, column, columns) == Truthy(value) /\ column \in Range(columns)

AuditRunsDesired ==
    <<"id", "account_id", "template_id", "status", "started_at", "due_at", "created_at">>

list_audit_runs ==
    /\ pc = "idle"
    /\ handler' = "list_audit_runs"
    /\ \E account_id \in {None, "", "acct-1"}, limit \in {50} :
          args' = [account_id |-> account_id, limit |-> limit]
    /\ pc' = "Connecting"
    /\ UNCHANGED <<envVars, dbVars, ret, response, faultAt, listVars, ctrVars, pureVars>>

\* lines 189-217: the catalog read and everything up to the finished query
list_audit_runs_build ==
    /\ handler = "list_audit_runs" /\ pc = "FetchingColumns"
    /\ dbLog' = Executed(TRUE)
    /\ \E c \in _table_columns("audit_runs") :
          LET sel == _select_intersection(c, AuditRunsDesired)
              filtered == FilterApplies(args.account_id, "account_id", c)
              parts == IF filtered THEN <<Predicate("account_id", "account_id")>> ELSE <<>>
              prm == IF filtered
                     THEN [limit |-> args.limit, account_id |-> args.account_id]
                     ELSE [limit |-> args.limit]
              order_col == IF "created_at" \in Range(c) THEN "created_at" ELSE sel[1]
          IN  /\ cols' = c
              /\ select_cols' = sel
              /\ IF sel = <<>>
                 THEN /\ Return([error |-> "audit_runs_no_known_columns",
                                 detail |-> <<"Found columns:", c>>])
                      /\ UNCHANGED <<where_parts, params, query>>
                 ELSE /\ where_parts' = parts
                      /\ params' = prm
                      /\ query' = SelectStatement(Join(KW(","), Idents(sel)),
                                                  <<Ident("audit_runs")>>, <<>>,
                                                  parts, order_col)
                      /\ Goto("Executing")
    /\ UNCHANGED <<envVars, committed, tx, conn, run_cols, join_sql, ctrVars, pureVars>>

\* lines 219-224 and 308-313: cur.execute(query, params) and the rows
execute_select ==
    /\ handler \in {"list_audit_runs", "list_tasks"} /\ pc = "Executing"
    /\ dbLog' = Executed(TRUE)
    /\ \E rows \in {<<>>, <<"row">>} :
          Return([items |-> rows, count |-> Len(rows), selected_columns |-> select_cols])
    /\ UNCHANGED <<envVars, committed, tx, conn, listVars, ctrVars, pureVars>>

(***************************************************************************)
(* GET /tasks                                                              *)
(***************************************************************************)
TasksDesired ==
    <<"id", "audit_run_id", "template_task_id", "title", "description", "status",
      "owner_user_id", "due_at", "created_at">>

list_tasks ==
    /\ pc = "idle"
    /\ handler' = "list_tasks"
    /\ \E audit_run_id \in {None, "run-1"}, account_id \in {None, "", "acct-1"},
          status \in {None, "open"}, limit \in {200} :
          args' = [audit_run_id |-> audit_run_id, account_id |-> account_id,
                   status |-> status, limit |-> limit]
    /\ pc' = "Connecting"
    /\ UNCHANGED <<envVars, dbVars, ret, response, faultAt, listVars, ctrVars, pureVars>>

\* line 250
list_tasks_columns ==
    /\ handler = "list_tasks" /\ pc = "FetchingColumns"
    /\ dbLog' = Executed(TRUE)
    /\ \E c \in _table_columns("tasks") : cols' = c
    /\ Goto("FetchingRunColumns")
    /\ UNCHANGED <<envVars, committed, tx, conn, run_cols, select_cols, where_parts,
                   join_sql, params, query, ctrVars, pureVars>>

\* an account filter that joins without looking for audit_runs.id
AccountFilterLoose(account_id, task_cols, runs) ==
    IF ~Truthy(account_id) THEN "none"
    ELSE IF "account_id" \in Range(task_cols) THEN "direct"
    ELSE IF "audit_run_id" \in Range(task_cols) /\ "account_id" \in Range(runs)
         THEN "join"
    ELSE "impossible"

\* the account_id filter of list_tasks (lines 270-287): "direct", "join",
\* "none" when no filter was asked for, "impossible" when it cannot be applied
AccountFilter(account_id, task_cols, runs) ==
    IF ~Truthy(account_id) THEN "none"
    ELSE IF "account_id" \in Range(task_cols) THEN "direct"
    ELSE IF /\ "audit_run_id" \in Range(task_cols)
            /\ "id" \in Range(runs)
            /\ "account_id" \in Range(runs)
         THEN "join"
    ELSE "impossible"

\* lines 251-306: the second catalog read and everything up to the query
list_tasks_build ==
    /\ handler = "list_tasks" /\ pc = "FetchingRunColumns"
    /\ dbLog' = Executed(TRUE)
    /\ \E r \in _table_columns("audit_runs") :
          LET task_cols == cols
              sel == _select_intersection(task_cols, TasksDesired)
              byRun == FilterApplies(args.audit_run_id, "audit_run_id", task_cols)
              byStatus == FilterApplies(args.status, "status", task_cols)
              acct == AccountFilter(args.account_id, task_cols, r)
              parts ==
                  (IF byRun THEN <<Predicate("t.audit_run_id", "audit_run_id")>> ELSE <<>>)
                  \o (IF byStatus THEN <<Predicate("t.status", "status")>> ELSE <<>>)
                  \o (CASE acct = "direct" -> <<Predicate("t.account_id", "account_id")>>
                        [] acct = "join" -> <<Predicate("r.account_id", "account_id")>>
                        [] OTHER -> <<>>)
              prm ==
                  (IF acct \in {"direct", "join"}
                   THEN [account_id |-> args.account_id] ELSE NoExtra)
                  @@ (IF byStatus THEN [status |-> args.status] ELSE NoExtra)
                  @@ (IF byRun THEN [audit_run_id |-> args.audit_run_id] ELSE NoExtra)
                  @@ [limit |-> args.limit]
              join == IF acct = "join"
                      THEN <<KW("JOIN"), Ident("audit_runs"),
                             KW("r ON r.id = t.audit_run_id")>>
                      ELSE <<>>
              order_col == IF "created_at" \in Range(task_cols) THEN "created_at" ELSE sel[1]
          IN  /\ run_cols' = r
              /\ select_cols' = sel
              /\ IF sel = <<>>
                 THEN /\ Return([error |-> "tasks_no_known_columns",
                                 detail |-> <<"Found columns:", task_cols>>])
                      /\ UNCHANGED <<where_parts, join_sql, params, query>>
                 ELSE IF acct = "impossible"
                 THEN /\ Return([error |-> "tasks_cannot_filter_account_id",
                                 detail |-> "tasks.account_id missing and cannot join to audit_runs (missing required columns).",
                                 tasks_columns |-> task_cols,
                                 audit_runs_columns |-> r])
                      /\ where_parts' = (IF byRun THEN <<Predicate("t.audit_run_id", "audit_run_id")>> ELSE <<>>)
                                        \o (IF byStatus THEN <<Predicate("t.status", "status")>> ELSE <<>>)
                      /\ params' = (IF byStatus THEN [status |-> args.status] ELSE NoExtra)
                                   @@ (IF byRun THEN [audit_run_id |-> args.audit_run_id] ELSE NoExtra)
                                   @@ [limit |-> args.limit]
                      /\ UNCHANGED <<join_sql, query>>
                 ELSE /\ where_parts' = parts
                      /\ join_sql' = join
                      /\ params' = prm
                      /\ query' = SelectStatement(Join(KW(","), Idents(sel)),
                                                  <<Ident("tasks"), KW("t")>>, join,
                                                  parts, order_col)
                      /\ Goto("Executing")
    /\ UNCHANGED <<envVars, committed, tx, conn, cols, ctrVars, pureVars>>

(***************************************************************************)
(* POST /task-responses                                                    *)
(***************************************************************************)
TaskUuid == "2c1f0c56-7a52-4a3e-9a57-0d3f5b1c9e01"
UserUuid == "9d4e8a10-31b7-4c55-8f0e-6a2b7c3d4e02"
UuidStrings == {TaskUuid, UserUuid}

\* a validation that lets every string through
AcceptsAnything(value) == TRUE

\* uuid.UUID(str(value)) parses
_is_uuid(value) == value \in UuidStrings

\* TaskResponseIn
Payloads ==
    [task_id : {TaskUuid, "not-a-uuid"},
     user_id : {None, UserUuid, "not-a-uuid"},
     response_text : {None, "ok"},
     response_type : {None},
     value_bool : {None},
     value_number : {None}]

ColumnMeta(name, is_nullable, column_default, data_type) ==
    [name |-> name, is_nullable |-> is_nullable,
     column_default |-> column_default, data_type |-> data_type]

RECURSIVE MetaOf(_, _, _, _)
MetaOf(names, I, kind, i) ==
    IF i > Len(names) THEN <<>>
    ELSE (IF i \in I
          THEN <<ColumnMeta(names[i], kind[i][1], kind[i][2], kind[i][3])>>
          ELSE <<>>) \o MetaOf(names, I, kind, i + 1)

TRNames == <<"id", "task_id", "tasks_id", "user_id", "response_text", "severity", "created_at">>
TNames == <<"id", "status", "responded_at">>

\* the (is_nullable, column_default, data_type) a column of the catalog can have
TRKinds == {"YES", "NO"} \X {None, "now()"} \X {"text"}
TKinds(name) ==
    IF name = "status" THEN {<<"YES", None, "text">>, <<"YES", None, "USER-DEFINED">>}
    ELSE {<<"NO", None, "uuid">>}

TRSchemas ==
    UNION {{MetaOf(TRNames, I, kind, 1) : kind \in [I -> TRKinds]} :
             I \in {J \in SUBSET DOMAIN TRNames : Cardinality(J) <= MaxTRCols}}

TSchemas ==
    UNION {{MetaOf(TNames, I, kind, 1) :
              kind \in {k \in [I -> UNION {TKinds(TNames[i]) : i \in I}] :
                          \A i \in I : k[i] \in TKinds(TNames[i])}} :
             I \in SUBSET DOMAIN TNames}

\* what _table_column_meta can return for a table (an ordered dict)
_table_column_meta(table) ==
    CASE table = "task_responses" -> TRSchemas
      [] table = "tasks" -> TSchemas

\* meta.keys()
Keys(meta) == {meta[i].name : i \in DOMAIN meta}

\* a dict of column -> value, in insertion order
Entry(col, val) == [col |-> col, val |-> val]
Fields(d) == {d[i].col : i \in DOMAIN d}

\* a guard that takes every NOT NULL column for required, default or not
MissingNotNull(meta, provided) ==
    LET req == SelectSeq(meta, LAMBDA m : m.name \notin provided /\ m.is_nullable = "NO")
    IN  [i \in DOMAIN req |-> req[i].name]

_missing_required_columns(meta, provided) ==
    LET req == SelectSeq(meta, LAMBDA m :
                   /\ m.name \notin provided
                   /\ m.is_nullable = "NO"
                   /\ ~Truthy(m.column_default))
    IN  [i \in DOMAIN req |-> req[i].name]

allowlist == {"id", "created_at", "updated_at"}

\* a pending or committed write
Write(op, table, columns, matched) ==
    [op |-> op, table |-> table, columns |-> columns, matched |-> matched]

create_task_response ==
    /\ pc = "idle"
    /\ handler' = "create_task_response"
    /\ \E payload \in Payloads : args' = payload
    /\ pc' = "Validating"
    /\ UNCHANGED <<envVars, dbVars, ret, response, faultAt, listVars, ctrVars, pureVars>>

\* lines 329-333
Validating ==
    /\ handler = "create_task_response" /\ pc = "Validating"
    /\ IF ~_is_uuid(args.task_id)
       THEN /\ response' = _err("invalid_task_id", "task_id must be a UUID",
                                [task_id |-> args.task_id])
            /\ pc' = "done"
       ELSE IF Truthy(args.user_id) /\ ~_is_uuid(args.user_id)
       THEN /\ response' = _err("invalid_user_id", "user_id must be a UUID",
                                [user_id |-> args.user_id])
            /\ pc' = "done"
       ELSE /\ pc' = "Connecting"
            /\ UNCHANGED response
    /\ UNCHANGED <<envVars, dbVars, handler, args, ret, faultAt, listVars, ctrVars, pureVars>>

\* lines 338-340
ResolvingSchema ==
    /\ handler = "create_task_response" /\ pc = "ResolvingSchema"
    /\ dbLog' = Executed(TRUE)
    /\ \E m \in _table_column_meta("task_responses") :
          /\ tr_meta' = m
          /\ IF m = <<>>
             THEN Return(_err("missing_table",
                              "Table public.task_responses not found or has no columns",
                              NoExtra))
             ELSE Goto("ResolvingParentSchema")
    /\ UNCHANGED <<envVars, committed, tx, conn, listVars, t_meta, insert_data, missing,
                   update_fields, out_row, found, pureVars>>

\* insert_data of lines 360-375
InsertData(tr_cols, payload, task_fk_col) ==
    LET responder_col == _pick_first(tr_cols, <<"user_id", "responder_user_id",
                             "created_by_user_id", "created_by", "owner_user_id">>)
        text_col == _pick_first(tr_cols, <<"response_text", "text", "comment",
                             "response", "answer_text">>)
        type_col == _pick_first(tr_cols, <<"response_type", "type">>)
        bool_col == _pick_first(tr_cols, <<"value_bool", "bool_value", "response_bool">>)
        num_col == _pick_first(tr_cols, <<"value_number", "number_value", "response_number">>)
    IN  <<Entry(task_fk_col, payload.task_id)>>
        \o (IF Truthy(responder_col) /\ Truthy(payload.user_id)
            THEN <<Entry(responder_col, payload.user_id)>> ELSE <<>>)
        \o (IF Truthy(text_col) /\ payload.response_text # None
            THEN <<Entry(text_col, payload.response_text)>> ELSE <<>>)
        \o (IF Truthy(type_col) /\ payload.response_type # None
            THEN <<Entry(type_col, payload.response_type)>> ELSE <<>>)
        \o (IF Truthy(bool_col) /\ payload.value_bool # None
            THEN <<Entry(bool_col, payload.value_bool)>> ELSE <<>>)
        \o (IF Truthy(num_col) /\ payload.value_number # None
            THEN <<Entry(num_col, payload.value_number)>> ELSE <<>>)

\* lines 342-375
ResolvingParentSchema ==
    /\ handler = "create_task_response" /\ pc = "ResolvingParentSchema"
    /\ dbLog' = Executed(TRUE)
    /\ \E m \in _table_column_meta("tasks") :
          LET tr_cols == Keys(tr_meta)
              task_fk_col == _pick_first(tr_cols, <<"task_id", "tasks_id", "task_uuid">>)
          IN  /\ t_meta' = m
              /\ IF m = <<>>
                 THEN /\ Return(_err("missing_table",
                                     "Table public.tasks not found or has no columns",
                                     NoExtra))
                      /\ UNCHANGED insert_data
                 ELSE IF ~Truthy(task_fk_col)
                 THEN /\ Return(_err("schema_mismatch",
                                     "task_responses missing task FK column (expected task_id-like)",
                                     [columns |-> tr_cols]))
                      /\ UNCHANGED insert_data
                 ELSE /\ insert_data' = InsertData(tr_cols, args, task_fk_col)
                      /\ Goto("CheckingRequired")
    /\ UNCHANGED <<envVars, committed, tx, conn, listVars, tr_meta, missing,
                   update_fields, out_row, found, pureVars>>

\* lines 378-382: the guard, then the allow-list
RequiredMissing(meta, provided) ==
    SelectSeq(_missing_required_columns(meta, provided), LAMBDA c : c \notin allowlist)

\* lines 377-394
CheckingRequired ==
    /\ handler = "create_task_response" /\ pc = "CheckingRequired"
    /\ LET miss == RequiredMissing(tr_meta, Fields(insert_data))
       IN  /\ missing' = miss
           /\ IF miss # <<>>
              THEN Return(_err("missing_required_fields",
                               "task_responses has required columns without defaults that were not provided",
                               [missing_columns |-> miss,
                                provided_columns |-> Fields(insert_data),
                                available_columns |-> Keys(tr_meta)]))
              ELSE IF "id" \notin Keys(t_meta)
              THEN Return(_err("schema_mismatch", "tasks table missing id column",
                               [tasks_columns |-> Keys(t_meta)]))
              ELSE Goto("ConfirmingParentExists")
    /\ UNCHANGED <<envVars, dbVars, listVars, tr_meta, t_meta, insert_data,
                   update_fields, out_row, found, pureVars>>

\* lines 396-402
ConfirmingParentExists ==
    /\ handler = "create_task_response" /\ pc = "ConfirmingParentExists"
    /\ dbLog' = Executed(TRUE)
    /\ found' = parentExists
    /\ IF ~parentExists
       THEN Return(_err("task_not_found", "No task found for task_id",
                        [task_id |-> args.task_id]))
       ELSE Goto("Inserting")
    /\ UNCHANGED <<envVars, committed, tx, conn, listVars, tr_meta, t_meta, insert_data,
                   missing, update_fields, out_row, pureVars>>

\* the value the database returns for a RETURNING column of the new row
Returned(c) ==
    CASE c = "id" -> "new-id"
      [] c = "task_id" -> args.task_id
      [] c = "created_at" -> "now"

\* an update that writes status whatever its type
UpdateFieldsAnyStatus(meta) ==
    (IF "responded_at" \in Keys(meta) THEN <<Entry("responded_at", "utcnow")>> ELSE <<>>)
    \o (IF "status" \in Keys(meta) THEN <<Entry("status", "responded")>> ELSE <<>>)

\* update_fields of lines 432-440
UpdateFields(meta) ==
    (IF "responded_at" \in Keys(meta) THEN <<Entry("responded_at", "utcnow")>> ELSE <<>>)
    \o (IF /\ "status" \in Keys(meta)
           /\ (CHOOSE m \in Range(meta) : m.name = "status").data_type # "USER-DEFINED"
        THEN <<Entry("status", "responded")>> ELSE <<>>)

\* lines 405-440: the INSERT, its returned row, and the fields of the update
Inserting ==
    /\ handler = "create_task_response" /\ pc = "Inserting"
    /\ dbLog' = Executed(TRUE)
    /\ tx' = Append(tx, Write("insert", "task_responses", Fields(insert_data), TRUE))
    /\ LET returning_cols ==
               SelectSeq(<<"id", "task_id", "created_at">>, LAMBDA c : c \in Keys(tr_meta))
       IN  out_row' = [c \in Range(returning_cols) |-> Returned(c)]
    /\ update_fields' = UpdateFields(t_meta)
    /\ Goto("UpdatingParent")
    /\ UNCHANGED <<envVars, committed, conn, listVars, tr_meta, t_meta, insert_data,
                   missing, found, pureVars>>

\* a handler that looks at the UPDATE's row count and reports a vanished parent
ResultCheckingRowCount(updated, matched) ==
    IF updated /\ ~matched
    THEN _err("task_not_found", "No task found for task_id", [task_id |-> args.task_id])
    ELSE out_row @@ [status |-> "saved", task_id |-> args.task_id]

\* lines 453-457: the body returned after the UPDATE step; cur.rowcount is
\* never read
ResultAfterUpdate(updated, matched) ==
    out_row @@ [status |-> "saved", task_id |-> args.task_id]

\* lines 442-457
UpdatingParent ==
    /\ handler = "create_task_response" /\ pc = "UpdatingParent"
    /\ IF update_fields # <<>>
       THEN /\ dbLog' = Executed(TRUE)
            /\ tx' = Append(tx, Write("update", "tasks", Fields(update_fields), parentExists))
       ELSE UNCHANGED <<dbLog, tx>>
    /\ Return(ResultAfterUpdate(update_fields # <<>>, parentExists))
    /\ UNCHANGED <<envVars, committed, conn, listVars, ctrVars, pureVars>>

\* another session deletes the tasks row and commits while the request is in
\* progress: the request's statements run under READ COMMITTED and hold no
\* lock on the row between the lookup (396-402) and the UPDATE (453-454)
ConcurrentDeleteParent ==
    /\ handler = "create_task_response"
    /\ pc \notin {"idle", "done"}
    /\ parentExists
    /\ parentExists' = FALSE
    /\ UNCHANGED <<DATABASE_URL, dbVars, reqVars, listVars, ctrVars, pureVars>>

(***************************************************************************)
(* Spec: one request against the database                                  *)
(***************************************************************************)
Init ==
    /\ DATABASE_URL \in {None, "postgresql://db/audit"}
    /\ parentExists \in BOOLEAN
    /\ IdleRequest
    /\ existing = <<>> /\ desired = <<>> /\ selected = <<>>
    /\ picked = None /\ called = {}

Next ==
    \/ health
    \/ debug_db \/ debug_db_count
    \/ debug_columns \/ debug_columns_fetch
    \/ list_audit_runs \/ list_audit_runs_build
    \/ list_tasks \/ list_tasks_columns \/ list_tasks_build
    \/ execute_select
    \/ create_task_response \/ Validating \/ ResolvingSchema \/ ResolvingParentSchema
    \/ CheckingRequired \/ ConfirmingParentExists \/ Inserting \/ UpdatingParent
    \/ _db \/ StatementFault \/ ConnExit
    \/ ConcurrentDeleteParent

Spec == Init /\ [][Next]_vars

(***************************************************************************)
(* Claims on the column resolver (SpecPure)                                *)
(***************************************************************************)
KthOf(I, k) == CHOOSE i \in I : Cardinality({j \in I : j <= i}) = k

MoveToFront(s, j) == <<s[j]>> \o SubSeq(s, 1, j - 1) \o SubSeq(s, j + 1, Len(s))

\* C3: _select_intersection(S, D) is the subsequence of D made of exactly the
\* positions of D whose element is a column of S, in D's order, so every
\* selected column is a column of the live schema.
C3_IntersectionIsSubsequenceOfDesired ==
    "_select_intersection" \in called =>
        LET I == {i \in DOMAIN desired : \E j \in DOMAIN existing : existing[j] = desired[i]}
        IN  /\ Len(selected) = Cardinality(I)
            /\ \A k \in DOMAIN selected : selected[k] = desired[KthOf(I, k)]
            /\ \A k \in DOMAIN selected : \E j \in DOMAIN existing : existing[j] = selected[k]

\* C3 witness: two columns were selected in the desired list's order, which is
\* the reverse of the table's physical order, and a desired field was dropped.
C3_Witness ==
    /\ "_select_intersection" \in called
    /\ Len(selected) = 2
    /\ Len(desired) = 3
    /\ \E i, j \in DOMAIN existing :
          i < j /\ existing[i] = selected[2] /\ existing[j] = selected[1]

\* C4: _pick_first returns the earliest candidate that is a column of the
\* schema, or None when none is; and putting another matching candidate
\* first changes the result.
C4_PickFirstFollowsCandidateOrder ==
    "_pick_first" \in called =>
        LET M == {i \in DOMAIN desired : \E j \in DOMAIN existing : existing[j] = desired[i]}
        IN  /\ (M = {}) <=> (picked = None)
            /\ M # {} => \E i \in M : picked = desired[i] /\ \A j \in M : i <= j
            /\ \A j \in M :
                  desired[j] # picked =>
                      _pick_first(Range(existing), MoveToFront(desired, j)) # picked

\* C4 witness: two different candidates match and the earlier one was picked.
C4_Witness ==
    /\ "_pick_first" \in called
    /\ \E i, j \in DOMAIN desired :
          /\ i < j /\ desired[i] # desired[j]
          /\ desired[i] \in Range(existing) /\ desired[j] \in Range(existing)
          /\ picked = desired[i]

(***************************************************************************)
(* Claims on the request handlers (Spec)                                   *)
(***************************************************************************)
CTR == handler = "create_task_response"
Listing == handler \in {"list_audit_runs", "list_tasks"}

\* the request is over and no exception was raised on its way
Finished == pc = "done" /\ faultAt = ""

Did(op, table) == \E i \in DOMAIN dbLog : dbLog[i].op = op /\ dbLog[i].table = table
DidOk(op, table) ==
    \E i \in DOMAIN dbLog : dbLog[i].op = op /\ dbLog[i].table = table /\ dbLog[i].ok

\* the body on its way to the caller: the return value until the connection
\* has exited, the response after
Answer == IF pc = "done" THEN response ELSE ret
Answered == pc = "done" \/ pc = "Exiting"
AnswerIs(code) == Answered /\ "error" \in DOMAIN Answer /\ Answer.error = code
\* the handler returned an error body with this code from inside `with _db()`
ReturnedError(code) == "error" \in DOMAIN ret /\ ret.error = code
Saved == "status" \in DOMAIN response /\ response.status = "saved"

\* C1: when the UPDATE of the parent faults after the INSERT ran, the failure is
\* reported and the inserted task_responses row is still persisted at the end.
C1_InsertSurvivesParentUpdateFault ==
    (CTR /\ pc = "done" /\ faultAt = "UpdatingParent") =>
        /\ "error" \in DOMAIN response
        /\ \E w \in committed : w.op = "insert" /\ w.table = "task_responses"

\* the required-field check of the request has run
RequiredChecked == CTR /\ insert_data # <<>> /\ pc # "CheckingRequired"

\* C2: the required-field check returns exactly the columns that are NOT NULL,
\* have no default, were not provided and are not id, created_at or
\* updated_at, each once; the request is stopped with missing_required_fields,
\* the names attached, exactly when that list is not empty, and no INSERT is
\* sent unless it is empty.
C2_RequiredCheckIsExact ==
    RequiredChecked =>
        LET expected ==
                {m.name : m \in {c \in Range(tr_meta) :
                                   /\ c.is_nullable = "NO"
                                   /\ c.column_default = None
                                   /\ c.name \notin Fields(insert_data)
                                   /\ c.name \notin {"id", "created_at", "updated_at"}}}
        IN  /\ Range(missing) = expected
            /\ Len(missing) = Cardinality(expected)
            /\ (missing # <<>>) <=> ReturnedError("missing_required_fields")
            /\ (missing # <<>>) =>
                   /\ ret.missing_columns = missing
                   /\ Finished => response = ret
                   /\ ~Did("insert", "task_responses")
                   /\ ~Did("select", "tasks")
            /\ (missing = <<>> /\ "id" \in Keys(t_meta)) =>
                   \/ pc = "ConfirmingParentExists"
                   \/ Did("select", "tasks")
            /\ Did("insert", "task_responses") => missing = <<>>

\* C2 witness: severity is NOT NULL without a default and was not provided:
\* the request is stopped with exactly severity reported.
C2_Witness ==
    /\ RequiredChecked /\ Finished
    /\ missing = <<"severity">>
    /\ AnswerIs("missing_required_fields")
    /\ \E c \in Range(tr_meta) :
          c.name = "severity" /\ c.is_nullable = "NO" /\ c.column_default = None

\* the tokens of a statement that bind a parameter
PlaceholdersOf(stmt) == {stmt[i].ph : i \in {j \in DOMAIN stmt : stmt[j].ph # ""}}

\* a WHERE keyword that no predicate follows
BareWhere(stmt) ==
    \E i \in DOMAIN stmt :
        /\ stmt[i] = KW("WHERE")
        /\ (i = Len(stmt) \/ stmt[i + 1].k # "pred")

\* C5: the SELECT of list_audit_runs and list_tasks never holds a WHERE keyword
\* without a predicate, and the parameters bound are exactly the placeholders
\* of the statement.
C5_NoBareWhereAndParamsMatch ==
    (Listing /\ query # <<>>) =>
        /\ ~BareWhere(query)
        /\ PlaceholdersOf(query) = DOMAIN params
        /\ (\E i \in DOMAIN query : query[i] = KW("WHERE")) <=> (where_parts # <<>>)

\* C5 witness: a list_tasks SELECT was executed with a status filter asked for
\* and no predicate at all, so without WHERE and with limit as its only
\* parameter.
C5_Witness ==
    /\ handler = "list_tasks" /\ DidOk("select", "tasks")
    /\ Truthy(args.status)
    /\ where_parts = <<>>
    /\ DOMAIN params = {"limit"}

\* the database accesses of create_task_response, in the order of its steps
StepOrder ==
    <<<<"connect", "">>, <<"catalog", "task_responses">>, <<"catalog", "tasks">>,
      <<"select", "tasks">>, <<"insert", "task_responses">>, <<"update", "tasks">>>>

\* how many database accesses precede a step
AccessesBefore(p) ==
    CASE p = "Validating" -> 0
      [] p = "Connecting" -> 0
      [] p = "ResolvingSchema" -> 1
      [] p = "ResolvingParentSchema" -> 2
      [] p = "CheckingRequired" -> 3
      [] p = "ConfirmingParentExists" -> 3
      [] p = "Inserting" -> 4
      [] p = "UpdatingParent" -> 5

\* not the text of a UUID
Malformed(value) == value \notin {TaskUuid, UserUuid}

\* C6: the steps of create_task_response run in the order Validating,
\* ResolvingSchema, CheckingRequired, ConfirmingParentExists, Inserting,
\* UpdatingParent, Done; the INSERT is sent only after every earlier step
\* passed; invalid_task_id, missing_table, missing_required_fields (with the
\* column names) and task_not_found each end the request with neither INSERT
\* nor UPDATE sent, and a malformed task_id with no database access at all.
C6_StepsInOrderAndInsertLast ==
    CTR =>
        /\ Len(dbLog) <= Len(StepOrder)
        /\ \A i \in DOMAIN dbLog :
              /\ <<dbLog[i].op, dbLog[i].table>> = StepOrder[i]
              /\ i < Len(dbLog) => dbLog[i].ok
        /\ pc \notin {"Exiting", "done"} =>
              /\ Len(dbLog) = AccessesBefore(pc)
              /\ \A i \in DOMAIN dbLog : dbLog[i].ok
        /\ Did("insert", "task_responses") =>
              /\ ~Malformed(args.task_id)
              /\ tr_meta # <<>> /\ t_meta # <<>>
              /\ RequiredChecked /\ missing = <<>>
              /\ "id" \in Keys(t_meta)
              /\ DidOk("select", "tasks") /\ found
        /\ Malformed(args.task_id) =>
              /\ dbLog = <<>> /\ conn = "none"
              /\ pc = "done" => AnswerIs("invalid_task_id")
        /\ AnswerIs("invalid_task_id") => dbLog = <<>> /\ conn = "none"
        /\ (DidOk("catalog", "task_responses") /\ tr_meta = <<>> /\ faultAt = "") =>
              AnswerIs("missing_table")
        /\ (DidOk("catalog", "tasks") /\ t_meta = <<>> /\ faultAt = "") =>
              AnswerIs("missing_table")
        /\ (missing # <<>> /\ faultAt = "") =>
              AnswerIs("missing_required_fields") /\ Answer.missing_columns = missing
        /\ (DidOk("select", "tasks") /\ ~found /\ faultAt = "") =>
              AnswerIs("task_not_found")
        /\ pc = "ConfirmingParentExists" => ~found
        /\ \A code \in {"invalid_task_id", "missing_table", "missing_required_fields",
                        "task_not_found"} :
              AnswerIs(code) =>
                  /\ ~Did("insert", "task_responses")
                  /\ ~Did("update", "tasks")
                  /\ tx = <<>>
                  /\ committed = {}

\* C6 witness: a request for a task that does not exist went through every
\* check up to the parent lookup and ended as task_not_found.
C6_Witness ==
    /\ CTR /\ Finished
    /\ AnswerIs("task_not_found")
    /\ Len(dbLog) = 4

\* the columns the parent update is meant to write for a tasks catalog
StatusKind(meta) ==
    IF "status" \notin Keys(meta) THEN "absent"
    ELSE (CHOOSE m \in Range(meta) : m.name = "status").data_type

\* C7: with an enumerated (USER-DEFINED) tasks.status the status is never
\* written and only responded_at, if present, is updated; the status is written
\* exactly when the column exists and is not enumerated; and when there is
\* neither a timestamp nor a writable status, no UPDATE is sent and the request
\* still ends as saved.
C7_ParentUpdateSkipsEnumStatus ==
    (CTR /\ DidOk("insert", "task_responses")) =>
        LET kind == StatusKind(t_meta)
            stamp == IF "responded_at" \in Keys(t_meta) THEN {"responded_at"} ELSE {}
            status == IF kind \notin {"absent", "USER-DEFINED"} THEN {"status"} ELSE {}
            updates == {w \in Range(tx) \cup committed : w.op = "update"}
        IN  /\ \A w \in updates : w.table = "tasks" /\ w.columns = stamp \cup status
            /\ kind = "USER-DEFINED" => \A w \in updates : w.columns = stamp
            /\ (\E w \in updates : "status" \in w.columns) =>
                   kind \notin {"absent", "USER-DEFINED"}
            /\ (pc \in {"Exiting", "done"} /\ faultAt = "") =>
                   /\ DidOk("update", "tasks") <=> (stamp \cup status # {})
                   /\ Answer.status = "saved"
            /\ Finished =>
                   (\E w \in committed : w.op = "update") <=> (stamp \cup status # {})
            /\ stamp \cup status = {} => ~Did("update", "tasks")

\* C7 witness: the response was saved against a tasks table whose status is an
\* enumerated type, and the committed update wrote responded_at alone.
C7_Witness ==
    /\ CTR /\ Finished
    /\ Saved
    /\ StatusKind(t_meta) = "USER-DEFINED"
    /\ \E w \in committed : w.op = "update" /\ w.columns = {"responded_at"}

\* the list handler has read the catalogs its filters are resolved against
FiltersResolved ==
    \/ handler = "list_audit_runs" /\ DidOk("catalog", "audit_runs")
    \/ handler = "list_tasks" /\ DidOk("catalog", "audit_runs")

FiltersOf(h) ==
    IF h = "list_audit_runs" THEN {"account_id"}
    ELSE {"audit_run_id", "status", "account_id"}

\* the filters asked for whose column the listed table does not have
AbsentFilters ==
    {f \in FiltersOf(handler) : args[f] \notin {None, ""} /\ f \notin Range(cols)}

BoundNames == {where_parts[i].ph : i \in DOMAIN where_parts} \cup DOMAIN params

\* the join of tasks to audit_runs can carry the account filter
Joinable ==
    /\ "audit_run_id" \in Range(cols)
    /\ "id" \in Range(run_cols)
    /\ "account_id" \in Range(run_cols)

\* the handler ended the request with an error body of its own
Failed == "error" \in DOMAIN ret

\* C8 as stated: every filter asked for whose column is absent from the live
\* schema is left out of the WHERE list and the request does not fail.
C8_AbsentFilterOmittedNeverFails ==
    (Listing /\ FiltersResolved /\ select_cols # <<>> /\ AbsentFilters # {}) =>
        /\ AbsentFilters \cap BoundNames = {}
        /\ ~Failed
        /\ Finished => "error" \notin DOMAIN response

\* C8 amended: a filter asked for whose column the listed table lacks is left
\* out of the WHERE list and of the parameters and does not fail the request,
\* except the account_id filter of list_tasks, which is applied through the
\* join to audit_runs when the join columns exist and otherwise fails the
\* request with tasks_cannot_filter_account_id.
C8_AbsentFilterOmittedExceptTaskAccount ==
    (Listing /\ FiltersResolved /\ select_cols # <<>>) =>
        LET viaRuns == handler = "list_tasks" /\ "account_id" \in AbsentFilters
            plain == IF viaRuns THEN AbsentFilters \ {"account_id"} ELSE AbsentFilters
        IN  /\ plain \cap BoundNames = {}
            /\ Failed <=> (viaRuns /\ ~Joinable)
            /\ Failed => ret.error = "tasks_cannot_filter_account_id"
            /\ Finished => response = ret
            /\ (viaRuns /\ Joinable) =>
                   /\ "account_id" \in BoundNames
                   /\ join_sql # <<>>

\* C8 witness: list_tasks answered with rows although the status and
\* audit_run_id filters asked for name columns the table lacks; neither is
\* bound.
C8_Witness ==
    /\ handler = "list_tasks" /\ Finished
    /\ "items" \in DOMAIN response
    /\ AbsentFilters = {"status", "audit_run_id"}
    /\ BoundNames = {"limit"}

\* list_tasks has read both catalogs
TaskFiltersBuilt ==
    /\ handler = "list_tasks"
    /\ Len(dbLog) >= 3 /\ dbLog[3].ok

\* C9: list_tasks with an account_id filter and a non-empty selection filters
\* on tasks.account_id when tasks has it; otherwise through a join to
\* audit_runs when tasks has audit_run_id and audit_runs has id and
\* account_id; otherwise it returns tasks_cannot_filter_account_id with both
\* column lists and sends no SELECT on tasks.
C9_AccountFilterDirectJoinOrError ==
    (TaskFiltersBuilt /\ args.account_id \notin {None, ""} /\ select_cols # <<>>) =>
        LET direct == "account_id" \in Range(cols)
            acct == {where_parts[i] : i \in {j \in DOMAIN where_parts :
                                               where_parts[j].ph = "account_id"}}
            joins == {i \in DOMAIN query : query[i] = KW("JOIN")}
        IN  /\ direct =>
                   /\ acct = {Predicate("t.account_id", "account_id")}
                   /\ join_sql = <<>> /\ joins = {}
                   /\ params.account_id = args.account_id
                   /\ faultAt = "" => ~AnswerIs("tasks_cannot_filter_account_id")
            /\ (~direct /\ Joinable) =>
                   /\ acct = {Predicate("r.account_id", "account_id")}
                   /\ join_sql # <<>>
                   /\ \E i \in joins : query[i + 1] = Ident("audit_runs")
                   /\ params.account_id = args.account_id
                   /\ faultAt = "" => ~AnswerIs("tasks_cannot_filter_account_id")
            /\ (~direct /\ ~Joinable) =>
                   /\ ReturnedError("tasks_cannot_filter_account_id")
                   /\ ret.tasks_columns = cols
                   /\ ret.audit_runs_columns = run_cols
                   /\ Finished => response = ret
                   /\ ~Did("select", "tasks")
                   /\ query = <<>>

\* C9 witness: tasks has no account_id and audit_runs has account_id but no
\* id, so the request ended with tasks_cannot_filter_account_id.
C9_Witness ==
    /\ TaskFiltersBuilt /\ Finished
    /\ AnswerIs("tasks_cannot_filter_account_id")
    /\ "audit_run_id" \in Range(cols)
    /\ "account_id" \in Range(run_cols) /\ "id" \notin Range(run_cols)

\* the success body of each handler
Success(h, body) ==
    CASE h = "health" -> body = [status |-> "ok"]
      [] h = "debug_db" -> "status" \in DOMAIN body /\ body.status = "success"
      [] h = "debug_columns" -> "columns" \in DOMAIN body
      [] h \in {"list_audit_runs", "list_tasks"} -> "items" \in DOMAIN body
      [] h = "create_task_response" -> "status" \in DOMAIN body /\ body.status = "saved"
      [] OTHER -> FALSE

\* C10 as stated: every request ends with a success payload or with an error
\* descriptor that has an `error` code and a `detail`; no exception escapes.
C10_EveryResponseHasErrorCode ==
    pc = "done" =>
        /\ "unhandled_exception" \notin DOMAIN response
        /\ \/ Success(handler, response)
           \/ {"error", "detail"} \subseteq DOMAIN response

\* C10 amended: no exception escapes a handler; every request ends with a
\* success payload or with an error descriptor carrying a `detail`, and the
\* descriptor has its code in an `error` field for every handler but debug_db,
\* which answers {status: "error", detail} instead; a request on which an
\* exception was raised never ends with a success payload.
C10_EveryResponseIsStructured ==
    pc = "done" =>
        /\ "unhandled_exception" \notin DOMAIN response
        /\ \/ Success(handler, response)
           \/ /\ handler # "debug_db"
              /\ {"error", "detail"} \subseteq DOMAIN response
           \/ /\ handler = "debug_db"
              /\ DOMAIN response = {"status", "detail"}
              /\ response.status = "error"
        /\ faultAt # "" => ~Success(handler, response)
        /\ (faultAt # "" /\ handler # "debug_db") => "error" \in DOMAIN response

\* C10 witness: the SELECT of list_tasks faulted in the database and the
\* request ended with the tasks_query_failed descriptor.
C10_Witness ==
    /\ handler = "list_tasks" /\ pc = "done"
    /\ faultAt = "Executing"
    /\ "error" \in DOMAIN response /\ response.error = "tasks_query_failed"
    /\ "detail" \in DOMAIN response

\* the parent row was deleted after the lookup had found it
ParentVanished == CTR /\ found /\ ~parentExists

UnmatchedUpdates(writes) == {w \in writes : w.op = "update" /\ ~w.matched}

====
